---- MODULE Spec2Model ----
(***************************************************************************)
(* Learning-switch controllers with QoS queue classification               *)
(* (controladorTeste2.py, controladorTeste3.py, controladorTeste4_5.py).   *)
(*                                                                         *)
(* State: which controller runs (variant), its mac_to_port dictionary, the *)
(* position of the application's event loop (pc), the event being handled  *)
(* (ev), the messages its handler passed to datapath.send_msg, in order    *)
(* (sent), and whether the handler raised (raised).  before is            *)
(* mac_to_port as the handler found it.  seen records, beside the          *)
(* controller, the ingress port of the latest sighting of each source      *)
(* address on each switch.                                                 *)
(***************************************************************************)
EXTENDS Integers, Sequences, FiniteSets, TLC

VARIABLES variant, mac_to_port, seen, pc, ev, before, sent, raised, flow_table,
          streams, send_ok, side

vars == <<variant, mac_to_port, seen, pc, ev, before, sent, raised, flow_table,
          streams, send_ok, side>>

(***************************************************************************)
(* Protocol constants used by the handlers.  The reserved 32-bit values    *)
(* 0xfffffffb, 0xfffffffd and 0xffffffff are written as the same bit       *)
(* patterns read as signed 32-bit integers; the handlers only compare      *)
(* them for equality.                                                      *)
(***************************************************************************)
OFPP_FLOOD == -5
OFPP_CONTROLLER == -3
OFP_NO_BUFFER == -1
OFPCML_NO_BUFFER == 65535
ETH_TYPE_IP == 2048
ETH_TYPE_ARP == 2054
ETH_TYPE_LLDP == 35020

QOS_DPID == 1
QOS_PORT == 4
QUEUE_HIGH == 1
QUEUE_LOW == 2

(***************************************************************************)
(* Bounds of the model.                                                    *)
(***************************************************************************)
MaxBufferId == 1

(***************************************************************************)
(* The inputs: the three controllers, the two switches of the test         *)
(* topology (s1 is the QoS switch), an access port and the QoS port, two   *)
(* host addresses and the broadcast address, the four hosts' IP addresses  *)
(* and one foreign address, and the buffer ids a switch may supply.        *)
(***************************************************************************)
Variants == {"Teste2", "Teste3", "Teste4_5"}
Dpids == {QOS_DPID, 2}
Ports == {1, QOS_PORT}
Macs == {"00:00:00:00:00:01", "00:00:00:00:00:04"}
Broadcast == "ff:ff:ff:ff:ff:ff"
IpSrcs == {"10.0.0.1", "10.0.0.2", "10.0.0.3", "10.0.0.9"}
IpDsts == {"10.0.0.4", "10.0.0.9"}
BufferIds == (0..MaxBufferId) \cup {OFP_NO_BUFFER}

(***************************************************************************)
(* Parsed packets: packet.Packet(msg.data).  eth / ip tell whether         *)
(* get_protocol finds the ethernet / ipv4 header (None otherwise).         *)
(***************************************************************************)
NoEthPkt == [eth |-> FALSE, ethertype |-> 0, src |-> "", dst |-> "",
             ip |-> FALSE, ip_src |-> "", ip_dst |-> ""]

EthPkts == [eth : {TRUE}, ethertype : {ETH_TYPE_ARP, ETH_TYPE_LLDP},
            src : Macs, dst : Macs \cup {Broadcast},
            ip : {FALSE}, ip_src : {""}, ip_dst : {""}]

IpPkts == [eth : {TRUE}, ethertype : {ETH_TYPE_IP},
           src : Macs, dst : Macs,
           ip : {TRUE}, ip_src : IpSrcs, ip_dst : IpDsts]

TruncIpPkts == [eth : {TRUE}, ethertype : {ETH_TYPE_IP},
                src : Macs, dst : Macs,
                ip : {FALSE}, ip_src : {""}, ip_dst : {""}]

Pkts == {NoEthPkt} \cup EthPkts \cup IpPkts \cup TruncIpPkts

PacketInMsgs == [kind : {"PacketIn"}, dpid : Dpids, in_port : Ports,
                 buffer_id : BufferIds, pkt : Pkts]

NoEvent == [kind |-> "None"]

(***************************************************************************)
(* Python dictionaries as functions with a finite domain.                  *)
(***************************************************************************)
EmptyDict == <<>>

SetItem(d, k, v) == [x \in (DOMAIN d) \cup {k} |-> IF x = k THEN v ELSE d[x]]

setdefault(d, k, v) == IF k \in DOMAIN d THEN d ELSE SetItem(d, k, v)

Get(d, k, default) == IF k \in DOMAIN d THEN d[k] ELSE default

(***************************************************************************)
(* OpenFlow message builders.                                              *)
(***************************************************************************)
OFPActionOutput(port) == <<"OUTPUT", port>>

OFPActionOutputMaxLen(port, max_len) == <<"OUTPUT", port, max_len>>

OFPActionSetQueue(queue_id) == <<"SET_QUEUE", queue_id>>

MatchAll == EmptyDict

\* Mutant of MatchBase: the ingress port is left out of the match.
MatchBase_NoInPort(in_port, dst) == [eth_dst |-> dst]

MatchBase(in_port, dst) == [in_port |-> in_port, eth_dst |-> dst]

\* Mutant of MatchIp: the link-layer destination stays in the match.
MatchIp_WithEthDst(pkt) ==
  [eth_type |-> ETH_TYPE_IP, ipv4_src |-> pkt.ip_src, ipv4_dst |-> pkt.ip_dst,
   eth_dst |-> pkt.dst]

MatchIp(pkt) == [eth_type |-> ETH_TYPE_IP, ipv4_src |-> pkt.ip_src, ipv4_dst |-> pkt.ip_dst]

\* buffer_id is <<>> for Python's None (the default), <<b>> for a value b.
PyOr(opt, dflt) == IF opt = <<>> \/ opt[1] = 0 THEN dflt ELSE opt[1]

\* Mutant of add_flow: the priority argument is not passed on.
add_flow_Priority0(dpid, priority, match, actions, buffer_id) ==
  [type |-> "FlowMod", dpid |-> dpid,
   buffer_id |-> PyOr(buffer_id, OFP_NO_BUFFER),
   priority |-> 0, match |-> match, actions |-> actions]

add_flow(dpid, priority, match, actions, buffer_id) ==
  [type |-> "FlowMod", dpid |-> dpid,
   buffer_id |-> PyOr(buffer_id, OFP_NO_BUFFER),
   priority |-> priority, match |-> match, actions |-> actions]

\* Mutant of packet_out: the frame bytes are attached to every PacketOut.
packet_out_AlwaysData(msg, actions) ==
  [type |-> "PacketOut", dpid |-> msg.dpid, buffer_id |-> msg.buffer_id,
   in_port |-> msg.in_port, actions |-> actions,
   data |-> TRUE]

packet_out(msg, actions) ==
  [type |-> "PacketOut", dpid |-> msg.dpid, buffer_id |-> msg.buffer_id,
   in_port |-> msg.in_port, actions |-> actions,
   data |-> (msg.buffer_id = OFP_NO_BUFFER)]

(***************************************************************************)
(* switch_features_handler: the table-miss rule.                           *)
(***************************************************************************)
\* Mutant of switch_features_handler: the rule is installed at priority 1.
switch_features_handler_Priority1(dpid) ==
  <<add_flow(dpid, 1, MatchAll,
             <<OFPActionOutputMaxLen(OFPP_CONTROLLER, OFPCML_NO_BUFFER)>>, <<>>)>>

switch_features_handler(dpid) ==
  <<add_flow(dpid, 0, MatchAll,
             <<OFPActionOutputMaxLen(OFPP_CONTROLLER, OFPCML_NO_BUFFER)>>, <<>>)>>

(***************************************************************************)
(* _packet_in_handler, step by step.                                       *)
(***************************************************************************)
\* Mutants of Learn: an address already recorded keeps its first port; the
\* switch's scope is re-created on every frame.
Learn_KeepFirst(table, dpid, src, in_port) ==
  LET t == setdefault(table, dpid, EmptyDict)
  IN  [t EXCEPT ![dpid] = setdefault(t[dpid], src, in_port)]

Learn_ResetScope(table, dpid, src, in_port) ==
  LET t == setdefault(table, dpid, EmptyDict)
  IN  [t EXCEPT ![dpid] = SetItem(EmptyDict, src, in_port)]

\* Mutant of Learn: one table for all switches, the address is recorded in
\* every scope there is.
Learn_AllSwitches(table, dpid, src, in_port) ==
  LET t == setdefault(table, dpid, EmptyDict)
  IN  [d \in DOMAIN t |-> SetItem(t[d], src, in_port)]

Learn(table, dpid, src, in_port) ==
  LET t == setdefault(table, dpid, EmptyDict)
  IN  [t EXCEPT ![dpid] = SetItem(t[dpid], src, in_port)]

\* Mutants of OutPort: an unknown destination resolved to a port; the
\* table never consulted.
OutPort_DefaultPort(table, dpid, dst) == Get(table[dpid], dst, QOS_PORT)

OutPort_AlwaysFlood(table, dpid, dst) == OFPP_FLOOD

\* Mutant of OutPort: an address unknown on this switch is looked up in the
\* scopes of the other switches.
OutPort_AnySwitch(table, dpid, dst) ==
  IF dst \in DOMAIN table[dpid]
  THEN table[dpid][dst]
  ELSE IF \E d \in DOMAIN table : dst \in DOMAIN table[d]
       THEN table[CHOOSE d \in DOMAIN table : dst \in DOMAIN table[d]][dst]
       ELSE OFPP_FLOOD

OutPort(table, dpid, dst) == Get(table[dpid], dst, OFPP_FLOOD)

\* A classification step yields the (match, actions) pair to install, or
\* raises when it dereferences a missing ipv4 header (ip is None).
Kept(match, actions) == [raised |-> FALSE, match |-> match, actions |-> actions]

Raised == [raised |-> TRUE, match |-> EmptyDict, actions |-> <<>>]

\* The classification predicates of the two-tier and the three-tier
\* controller, on the IP source and destination of the frame.
Rule2High(ip_src, ip_dst) == ip_src = "10.0.0.1" /\ ip_dst = "10.0.0.4"

Rule2Low(ip_src, ip_dst) == ip_src = "10.0.0.3" /\ ip_dst = "10.0.0.4"

Rule3High(ip_src, ip_dst) == ip_src = "10.0.0.2"

\* Mutant of Rule3Low: every host of the topology is in the low tier.
Rule3Low_AllHosts(ip_src, ip_dst) ==
  ip_src = "10.0.0.1" \/ ip_src = "10.0.0.2" \/ ip_src = "10.0.0.3"

Rule3Low(ip_src, ip_dst) == ip_src = "10.0.0.1" \/ ip_src = "10.0.0.3"

\* Mutant of Classify2: the queues are chosen on every switch and port.
Classify2_AnyPath(dpid, out_port, pkt, match, actions) ==
  IF pkt.ethertype = ETH_TYPE_IP
  THEN IF ~pkt.ip THEN Raised
       ELSE IF pkt.ip_src = "10.0.0.1" /\ pkt.ip_dst = "10.0.0.4"
            THEN Kept(MatchIp(pkt),
                      <<OFPActionSetQueue(QUEUE_HIGH), OFPActionOutput(out_port)>>)
            ELSE IF pkt.ip_src = "10.0.0.3" /\ pkt.ip_dst = "10.0.0.4"
                 THEN Kept(MatchIp(pkt),
                           <<OFPActionSetQueue(QUEUE_LOW), OFPActionOutput(out_port)>>)
                 ELSE Kept(match, actions)
  ELSE Kept(match, actions)

Classify2(dpid, out_port, pkt, match, actions) ==
  IF pkt.ethertype = ETH_TYPE_IP
  THEN IF dpid = QOS_DPID /\ out_port = QOS_PORT
       THEN IF ~pkt.ip THEN Raised
            ELSE IF Rule2High(pkt.ip_src, pkt.ip_dst)
                 THEN Kept(MatchIp(pkt),
                           <<OFPActionSetQueue(QUEUE_HIGH), OFPActionOutput(out_port)>>)
                 ELSE IF Rule2Low(pkt.ip_src, pkt.ip_dst)
                      THEN Kept(MatchIp(pkt),
                                <<OFPActionSetQueue(QUEUE_LOW), OFPActionOutput(out_port)>>)
                      ELSE Kept(match, actions)
       ELSE Kept(match, actions)
  ELSE Kept(match, actions)

\* Mutant of Classify3: the output port is not tested.
Classify3_AnyPort(dpid, out_port, pkt, match, actions) ==
  IF dpid = QOS_DPID /\ pkt.ethertype = ETH_TYPE_IP
  THEN IF ~pkt.ip THEN Raised
       ELSE IF pkt.ip_src = "10.0.0.2"
            THEN Kept(MatchIp(pkt),
                      <<OFPActionSetQueue(QUEUE_HIGH), OFPActionOutput(out_port)>>)
            ELSE IF pkt.ip_src = "10.0.0.1" \/ pkt.ip_src = "10.0.0.3"
                 THEN Kept(MatchIp(pkt),
                           <<OFPActionSetQueue(QUEUE_LOW), OFPActionOutput(out_port)>>)
                 ELSE Kept(match, actions)
  ELSE Kept(match, actions)

Classify3(dpid, out_port, pkt, match, actions) ==
  IF dpid = QOS_DPID /\ out_port = QOS_PORT /\ pkt.ethertype = ETH_TYPE_IP
  THEN IF ~pkt.ip THEN Raised
       ELSE IF Rule3High(pkt.ip_src, pkt.ip_dst)
            THEN Kept(MatchIp(pkt),
                      <<OFPActionSetQueue(QUEUE_HIGH), OFPActionOutput(out_port)>>)
            ELSE IF Rule3Low(pkt.ip_src, pkt.ip_dst)
                 THEN Kept(MatchIp(pkt),
                           <<OFPActionSetQueue(QUEUE_LOW), OFPActionOutput(out_port)>>)
                 ELSE Kept(match, actions)
  ELSE Kept(match, actions)

\* Mutant of Classify4_5: the two-tier classification is left in.
Classify4_5_TwoTier(dpid, out_port, pkt, match, actions) ==
  Classify2(dpid, out_port, pkt, match, actions)

Classify4_5(dpid, out_port, pkt, match, actions) == Kept(match, actions)

Classify(v, dpid, out_port, pkt, match, actions) ==
  CASE v = "Teste2" -> Classify2(dpid, out_port, pkt, match, actions)
    [] v = "Teste3" -> Classify3(dpid, out_port, pkt, match, actions)
    [] v = "Teste4_5" -> Classify4_5(dpid, out_port, pkt, match, actions)

Outcome(table, msgs, exc) == [table |-> table, sent |-> msgs, raised |-> exc]

\* Mutant of InstallThenSend: the PacketOut is sent first.
InstallThenSend_SendFirst(flow_mod, out) == <<out, flow_mod>>

\* Mutant of InstallThenSend: the FlowMod is sent twice.
InstallThenSend_Twice(flow_mod, out) == <<flow_mod, flow_mod, out>>

\* add_flow sends the FlowMod; the PacketOut is sent after it.
InstallThenSend(flow_mod, out) == <<flow_mod, out>>

\* Mutant of Forward: the PacketOut is built from the actions computed
\* before the classification.
Forward_SendsBaseActions(v, table, msg) ==
  LET pkt == msg.pkt
      dpid == msg.dpid
      out_port == OutPort(table, dpid, pkt.dst)
      actions == <<OFPActionOutput(out_port)>>
  IN  IF out_port # OFPP_FLOOD
      THEN LET c == Classify(v, dpid, out_port, pkt,
                             MatchBase(msg.in_port, pkt.dst), actions)
           IN  IF c.raised
               THEN Outcome(table, <<>>, TRUE)
               ELSE Outcome(table,
                            InstallThenSend(
                              add_flow(dpid, 1, c.match, c.actions, <<msg.buffer_id>>),
                              packet_out(msg, actions)),
                            FALSE)
      ELSE Outcome(table, <<packet_out(msg, actions)>>, FALSE)

Forward(v, table, msg) ==
  LET pkt == msg.pkt
      dpid == msg.dpid
      out_port == OutPort(table, dpid, pkt.dst)
      actions == <<OFPActionOutput(out_port)>>
  IN  IF out_port # OFPP_FLOOD
      THEN LET c == Classify(v, dpid, out_port, pkt,
                             MatchBase(msg.in_port, pkt.dst), actions)
           IN  IF c.raised
               THEN Outcome(table, <<>>, TRUE)
               ELSE Outcome(table,
                            InstallThenSend(
                              add_flow(dpid, 1, c.match, c.actions, <<msg.buffer_id>>),
                              packet_out(msg, c.actions)),
                            FALSE)
      ELSE Outcome(table, <<packet_out(msg, actions)>>, FALSE)

\* Mutant of packet_in_handler: a switch without a scope is a KeyError.
packet_in_handler_UnknownSwitchRaises(v, table, msg) ==
  IF ~msg.pkt.eth
  THEN Outcome(table, <<>>, TRUE)
  ELSE IF msg.pkt.ethertype = ETH_TYPE_LLDP
       THEN Outcome(table, <<>>, FALSE)
       ELSE IF msg.dpid \notin DOMAIN table
            THEN Outcome(table, <<>>, TRUE)
            ELSE Forward(v, Learn(table, msg.dpid, msg.pkt.src, msg.in_port), msg)

\* Mutant of packet_in_handler: the source is learned before the LLDP test.
packet_in_handler_LearnsLldp(v, table, msg) ==
  IF ~msg.pkt.eth
  THEN Outcome(table, <<>>, TRUE)
  ELSE IF msg.pkt.ethertype = ETH_TYPE_LLDP
       THEN Outcome(Learn(table, msg.dpid, msg.pkt.src, msg.in_port), <<>>, FALSE)
       ELSE Forward(v, Learn(table, msg.dpid, msg.pkt.src, msg.in_port), msg)

packet_in_handler(v, table, msg) ==
  IF ~msg.pkt.eth
  THEN Outcome(table, <<>>, TRUE)
  ELSE IF msg.pkt.ethertype = ETH_TYPE_LLDP
       THEN Outcome(table, <<>>, FALSE)
       ELSE Forward(v, Learn(table, msg.dpid, msg.pkt.src, msg.in_port), msg)

\* datapath.send_msg(m): the message is handed to the datapath once.  The
\* call returns whether the datapath took it (it does not when the switch
\* is gone); the handlers do not read the result.  log is the list of the
\* submissions made, each with its result.
\* Mutant of send_msg: a message the datapath did not take is handed over
\* a second time.
send_msg_Retry(log, m, ok) ==
  IF ok
  THEN Append(log, [msg |-> m, ok |-> TRUE])
  ELSE Append(Append(log, [msg |-> m, ok |-> FALSE]), [msg |-> m, ok |-> FALSE])

send_msg(log, m, ok) == Append(log, [msg |-> m, ok |-> ok])

\* The send_msg calls of one handler, in program order; oks are the results
\* the datapath gives.
RECURSIVE SubmitAll(_, _, _)
SubmitAll(log, msgs, oks) ==
  IF msgs = <<>>
  THEN log
  ELSE SubmitAll(send_msg(log, Head(msgs), Head(oks)), Tail(msgs), Tail(oks))

\* Mutant of Handle: a switch that connects gets a fresh scope.
Handle_ClearsScope(v, table, e) ==
  IF e.kind = "SwitchFeatures"
  THEN Outcome(SetItem(table, e.dpid, EmptyDict), switch_features_handler(e.dpid), FALSE)
  ELSE packet_in_handler(v, table, e)

\* The handler of an event, by its kind.
Handle(v, table, e) ==
  IF e.kind = "SwitchFeatures"
  THEN Outcome(table, switch_features_handler(e.dpid), FALSE)
  ELSE packet_in_handler(v, table, e)

\* No controllers side by side: one controller runs alone.
NoSide == [table |-> <<>>, sent |-> <<>>]

\* No event streams: the events come one by one from the event loop.
NoStreams == [todo |-> <<>>, all |-> <<>>, out |-> <<>>, interleaved |-> FALSE]

(***************************************************************************)
(* The state machine.  The event loop takes one event at a time            *)
(* (pc = "idle" -> "handling"), runs its handler to the end or to the      *)
(* exception it raises ("handling" -> "done"), and returns to wait for the *)
(* next event ("done" -> "idle").                                          *)
(***************************************************************************)
Init ==
  /\ variant \in Variants
  /\ mac_to_port = EmptyDict
  /\ seen = EmptyDict
  /\ pc = "idle"
  /\ ev = NoEvent
  /\ before = EmptyDict
  /\ sent = <<>>
  /\ raised = FALSE
  /\ flow_table = {}
  /\ streams = NoStreams
  /\ send_ok = <<>>
  /\ side = NoSide

Sighting(s, msg) ==
  IF msg.pkt.eth /\ msg.pkt.ethertype # ETH_TYPE_LLDP
  THEN LET t == setdefault(s, msg.dpid, EmptyDict)
       IN  [t EXCEPT ![msg.dpid] = SetItem(t[msg.dpid], msg.pkt.src, msg.in_port)]
  ELSE s

EventOFPSwitchFeatures(dpid) ==
  /\ pc = "idle"
  /\ pc' = "handling"
  /\ ev' = [kind |-> "SwitchFeatures", dpid |-> dpid]
  /\ UNCHANGED <<variant, mac_to_port, seen, before, sent, raised, flow_table, streams,
               send_ok, side>>

EventOFPPacketIn(msg) ==
  /\ pc = "idle"
  /\ pc' = "handling"
  /\ ev' = msg
  /\ UNCHANGED <<variant, mac_to_port, seen, before, sent, raised, flow_table, streams,
               send_ok, side>>

SwitchFeatures ==
  /\ pc = "handling"
  /\ ev.kind = "SwitchFeatures"
  /\ pc' = "done"
  /\ LET r == Handle(variant, mac_to_port, ev)
     IN  /\ mac_to_port' = r.table
         /\ sent' = r.sent
         /\ raised' = r.raised
  /\ before' = mac_to_port
  /\ UNCHANGED <<variant, seen, ev, flow_table, streams, send_ok,
               side>>

PacketIn ==
  /\ pc = "handling"
  /\ ev.kind = "PacketIn"
  /\ LET r == packet_in_handler(variant, mac_to_port, ev)
     IN  /\ mac_to_port' = r.table
         /\ sent' = r.sent
         /\ raised' = r.raised
  /\ seen' = Sighting(seen, ev)
  /\ before' = mac_to_port
  /\ pc' = "done"
  /\ UNCHANGED <<variant, ev, flow_table, streams, send_ok, side>>

\* Mutant of EventLoop: an exception that leaves a handler ends the loop.
EventLoop_StopsOnRaise ==
  /\ pc = "done"
  /\ ~raised
  /\ pc' = "idle"
  /\ ev' = NoEvent
  /\ before' = EmptyDict
  /\ sent' = <<>>
  /\ raised' = FALSE
  /\ send_ok' = <<>>
  /\ UNCHANGED <<variant, mac_to_port, seen, flow_table, streams,
               side>>

EventLoop ==
  /\ pc = "done"
  /\ pc' = "idle"
  /\ ev' = NoEvent
  /\ before' = EmptyDict
  /\ sent' = <<>>
  /\ raised' = FALSE
  /\ send_ok' = <<>>
  /\ UNCHANGED <<variant, mac_to_port, seen, flow_table, streams,
               side>>

Next ==
  \/ \E dpid \in Dpids : EventOFPSwitchFeatures(dpid)
  \/ \E msg \in PacketInMsgs : EventOFPPacketIn(msg)
  \/ SwitchFeatures
  \/ PacketIn
  \/ EventLoop

Spec == Init /\ [][Next]_vars

\* The event loop is a thread of its own: an event taken from the queue has
\* its handler run, the handlers have no loop and wait for nothing, and the
\* loop goes back to the queue after the handler has returned or raised.
\* Whether a further event arrives is up to the switches.
Fairness == WF_vars(SwitchFeatures) /\ WF_vars(PacketIn) /\ WF_vars(EventLoop)

\* Every kind of frame on every switch and port; no buffer ids, and one IP
\* destination.
LiveMsgs ==
  {m \in PacketInMsgs : /\ m.buffer_id = OFP_NO_BUFFER
                        /\ (m.pkt.eth /\ m.pkt.ip) => m.pkt.ip_dst = "10.0.0.4"}

NextLive ==
  \/ \E dpid \in Dpids : EventOFPSwitchFeatures(dpid)
  \/ \E msg \in LiveMsgs : EventOFPPacketIn(msg)
  \/ SwitchFeatures
  \/ PacketIn
  \/ EventLoop

SpecLive == Init /\ [][NextLive]_vars /\ Fairness

IsFlowMod(m) == m.type = "FlowMod"

IsPacketOut(m) == m.type = "PacketOut"

Installs(msgs) == {i \in 1..Len(msgs) : IsFlowMod(msgs[i])}

Sends(msgs) == {i \in 1..Len(msgs) : IsPacketOut(msgs[i])}

(***************************************************************************)
(* The same controller with the rules it has sent to the switches kept as  *)
(* history: flow_table holds the (switch, match) pair of every FlowMod of  *)
(* the events handled so far (of the current event only once the loop has  *)
(* returned to idle).  The controller itself keeps no such record.  The    *)
(* alphabet is one switch and frames of one IPv4 flow or ARP, which is     *)
(* enough for every rule to be installed twice.                            *)
(***************************************************************************)
Signature(m) == [dpid |-> m.dpid, match |-> m.match]

FlowPkts ==
  {p \in EthPkts : p.ethertype = ETH_TYPE_ARP /\ p.dst \in Macs}
    \cup {p \in IpPkts : p.ip_src = "10.0.0.1" /\ p.ip_dst = "10.0.0.4"}

FlowMsgs ==
  {m \in PacketInMsgs : /\ m.dpid = QOS_DPID
                        /\ m.buffer_id = OFP_NO_BUFFER
                        /\ m.pkt \in FlowPkts}

EventLoopFlows ==
  /\ pc = "done"
  /\ pc' = "idle"
  /\ ev' = NoEvent
  /\ before' = EmptyDict
  /\ sent' = <<>>
  /\ raised' = FALSE
  /\ flow_table' = flow_table \cup {Signature(sent[i]) : i \in Installs(sent)}
  /\ send_ok' = <<>>
  /\ UNCHANGED <<variant, mac_to_port, seen, streams, side>>

NextFlows ==
  \/ \E msg \in FlowMsgs : EventOFPPacketIn(msg)
  \/ PacketIn
  \/ EventLoopFlows

SpecFlows == Init /\ [][NextFlows]_vars

(***************************************************************************)
(* Vocabulary of the properties.                                           *)
(***************************************************************************)
\* The handler is about to run on a PacketIn whose ethernet header parsed
\* and is not LLDP.
HandlingFrame ==
  /\ pc = "handling"
  /\ ev.kind = "PacketIn"
  /\ ev.pkt.eth
  /\ ev.pkt.ethertype # ETH_TYPE_LLDP

\* The handler has run on such a PacketIn.
HandledFrame ==
  /\ pc = "done"
  /\ ev.kind = "PacketIn"
  /\ ev.pkt.eth
  /\ ev.pkt.ethertype # ETH_TYPE_LLDP

\* The ipv4 header is there whenever the ether-type announces one.
WellFormed(pkt) == pkt.eth /\ (pkt.ethertype = ETH_TYPE_IP => pkt.ip)

Recorded(table, dpid, mac) == dpid \in DOMAIN table /\ mac \in DOMAIN table[dpid]

\* Flood decision: one packet-send with the flood output, no rule install.
IsFlood(msgs) ==
  /\ Len(msgs) = 1
  /\ IsPacketOut(msgs[1])
  /\ msgs[1].actions = <<<<"OUTPUT", OFPP_FLOOD>>>>

\* The port of the last action of an action list, an output.
OutputOf(actions) == actions[Len(actions)][2]

\* Deliver(port) decision: one install and one packet-send, both ending in
\* the output to port.
IsDeliver(msgs, port) ==
  /\ port # OFPP_FLOOD
  /\ Cardinality(Installs(msgs)) = 1
  /\ Cardinality(Sends(msgs)) = 1
  /\ \A i \in 1..Len(msgs) :
       /\ msgs[i].actions[Len(msgs[i].actions)][1] = "OUTPUT"
       /\ OutputOf(msgs[i].actions) = port

\* The queue ids set by an action list.
QueueTags(actions) ==
  {actions[i][2] : i \in {j \in 1..Len(actions) : actions[j][1] = "SET_QUEUE"}}

\* The handler has run to its end on a frame whose destination it found in
\* the table: a Deliver decision, to DeliverPort.
Delivered ==
  /\ HandledFrame
  /\ ~raised
  /\ Recorded(mac_to_port, ev.dpid, ev.pkt.dst)

DeliverPort == mac_to_port[ev.dpid][ev.pkt.dst]

(***************************************************************************)
(* C1 (as amended).  Flood-until-known: every non-LLDP PacketIn with an    *)
(* ethernet header whose destination address is not recorded for its       *)
(* switch when the event arrives (in particular on a switch with no scope  *)
(* yet) and differs from the frame's own source address yields a Flood     *)
(* decision: one packet-send with the flood output and no rule install.    *)
(***************************************************************************)
C1_FloodUntilKnown ==
  [][(HandlingFrame
      /\ ~Recorded(mac_to_port, ev.dpid, ev.pkt.dst)
      /\ ev.pkt.dst # ev.pkt.src)
     => (IsFlood(sent') /\ ~raised')]_vars

C1_Witness ==
  /\ HandledFrame
  /\ ev.dpid \notin DOMAIN before
  /\ ev.pkt.dst # ev.pkt.src
  /\ IsFlood(sent)

\* C1 as stated: for every choice of source and destination address.
C1_AsStated ==
  [][(HandlingFrame /\ ~Recorded(mac_to_port, ev.dpid, ev.pkt.dst))
     => IsFlood(sent')]_vars

(***************************************************************************)
(* C2 (as amended).  Learn-then-deliver: after a non-LLDP PacketIn on      *)
(* switch s with source address X on port p (the latest such sighting of   *)
(* X on s), a well-formed non-LLDP PacketIn on s whose destination is X    *)
(* yields Deliver(p), whatever its ingress port, provided its source       *)
(* address is not X itself or it arrives on p.                             *)
(***************************************************************************)
C2_LearnThenDeliver ==
  [][(HandlingFrame
      /\ WellFormed(ev.pkt)
      /\ Recorded(seen, ev.dpid, ev.pkt.dst)
      /\ (ev.pkt.src # ev.pkt.dst \/ ev.in_port = seen[ev.dpid][ev.pkt.dst]))
     => IsDeliver(sent', seen[ev.dpid][ev.pkt.dst])]_vars

C2_Witness ==
  /\ HandledFrame
  /\ Recorded(before, ev.dpid, ev.pkt.dst)
  /\ ev.pkt.src # ev.pkt.dst
  /\ ev.in_port # before[ev.dpid][ev.pkt.dst]
  /\ IsDeliver(sent, before[ev.dpid][ev.pkt.dst])

\* C2 as stated: whatever the next packet's source address is.
C2_AsStated ==
  [][(HandlingFrame
      /\ WellFormed(ev.pkt)
      /\ Recorded(seen, ev.dpid, ev.pkt.dst))
     => IsDeliver(sent', seen[ev.dpid][ev.pkt.dst])]_vars

(***************************************************************************)
(* C3.  LLDP exclusion: in every variant a PacketIn whose ether-type is    *)
(* LLDP leaves the whole learning table unchanged, creates no per-switch   *)
(* scope, and sends nothing (no rule install, no packet-send).             *)
(***************************************************************************)
C3_LldpExclusion ==
  [][(pc = "handling" /\ ev.kind = "PacketIn"
      /\ ev.pkt.eth /\ ev.pkt.ethertype = ETH_TYPE_LLDP)
     => (mac_to_port' = mac_to_port /\ sent' = <<>> /\ ~raised')]_vars

C3_Witness ==
  /\ pc = "done"
  /\ ev.kind = "PacketIn"
  /\ ev.pkt.eth /\ ev.pkt.ethertype = ETH_TYPE_LLDP
  /\ ev.dpid \notin DOMAIN mac_to_port
  /\ mac_to_port # EmptyDict
  /\ sent = <<>>

(***************************************************************************)
(* C4.  Classification exclusivity (two-tier variant, controladorTeste2):  *)
(* a Deliver decision for an IPv4 frame on switch 1 with output port 4     *)
(* carries queue 1 when the IP source is 10.0.0.1 and the IP destination   *)
(* 10.0.0.4, queue 2 when they are 10.0.0.3 and 10.0.0.4, and no queue tag *)
(* for every other switch, output port, IP source and IP destination.      *)
(***************************************************************************)
TwoTierQueue(dpid, out_port, pkt) ==
  IF dpid = 1 /\ out_port = 4 /\ pkt.ethertype = ETH_TYPE_IP
     /\ pkt.ip_src = "10.0.0.1" /\ pkt.ip_dst = "10.0.0.4"
  THEN {1}
  ELSE IF dpid = 1 /\ out_port = 4 /\ pkt.ethertype = ETH_TYPE_IP
          /\ pkt.ip_src = "10.0.0.3" /\ pkt.ip_dst = "10.0.0.4"
       THEN {2}
       ELSE {}

C4_TwoTierClassification ==
  (variant = "Teste2" /\ Delivered)
  => /\ Len(sent) = 2
     /\ \A i \in 1..Len(sent) :
          QueueTags(sent[i].actions) = TwoTierQueue(ev.dpid, DeliverPort, ev.pkt)

C4_Witness ==
  /\ variant = "Teste2"
  /\ Delivered
  /\ ev.pkt.ip_src = "10.0.0.1"
  /\ QueueTags(sent[1].actions) = {1}
  /\ QueueTags(sent[2].actions) = {1}

(***************************************************************************)
(* C5.  Rule-before-send ordering: for every PacketIn with a Deliver       *)
(* decision the rule-install is passed to the switch before the            *)
(* packet-send of the same event; no event sends its packet before its     *)
(* install.                                                                *)
(***************************************************************************)
C5_RuleBeforeSend ==
  (pc = "done" /\ ev.kind = "PacketIn")
  => /\ \A i \in Installs(sent) : \A j \in Sends(sent) : i < j
     /\ Delivered => (Installs(sent) # {} /\ Sends(sent) # {})

C5_Witness ==
  /\ Delivered
  /\ ev.pkt.src # ev.pkt.dst
  /\ Len(sent) = 2
  /\ IsFlowMod(sent[1])
  /\ IsPacketOut(sent[2])

(***************************************************************************)
(* C6.  OnSwitchReady (switch_features_handler) sends exactly one message: *)
(* a rule-install with priority 0, an empty (match-all) match, the single  *)
(* action output-to-controller and no buffer reference; no packet-send.    *)
(***************************************************************************)
C6_TableMissRule ==
  (pc = "done" /\ ev.kind = "SwitchFeatures")
  => /\ Len(sent) = 1
     /\ IsFlowMod(sent[1])
     /\ sent[1].dpid = ev.dpid
     /\ sent[1].priority = 0
     /\ DOMAIN sent[1].match = {}
     /\ Len(sent[1].actions) = 1
     /\ sent[1].actions[1][1] = "OUTPUT"
     /\ sent[1].actions[1][2] = OFPP_CONTROLLER
     /\ sent[1].buffer_id = OFP_NO_BUFFER
     /\ Sends(sent) = {}

C6_Witness ==
  /\ pc = "done"
  /\ ev.kind = "SwitchFeatures"
  /\ mac_to_port # EmptyDict
  /\ Len(sent) = 1
  /\ sent[1].priority = 0

(***************************************************************************)
(* C7.  Most-recent-wins: when a non-LLDP PacketIn on a switch carries a   *)
(* source address a already sighted on that switch (on port p1) and        *)
(* arrives on port p2, the table maps (switch, a) to p2 afterwards, and    *)
(* the lookup made for a later packet addressed to a resolves to p2.       *)
(***************************************************************************)
C7_MostRecentWins ==
  [][(HandlingFrame /\ Recorded(seen, ev.dpid, ev.pkt.src))
     => /\ Recorded(mac_to_port', ev.dpid, ev.pkt.src)
        /\ mac_to_port'[ev.dpid][ev.pkt.src] = ev.in_port
        /\ OutPort(mac_to_port', ev.dpid, ev.pkt.src) = ev.in_port]_vars

C7_Witness ==
  /\ HandledFrame
  /\ Recorded(before, ev.dpid, ev.pkt.src)
  /\ before[ev.dpid][ev.pkt.src] # ev.in_port
  /\ mac_to_port[ev.dpid][ev.pkt.src] = ev.in_port

(***************************************************************************)
(* C8.  Idempotent learning: a non-LLDP PacketIn that repeats the latest   *)
(* sighting (same switch, source address and port) leaves the learning     *)
(* table exactly as it was; and handling the same PacketIn once more       *)
(* after it has been handled yields the same table.                        *)
(***************************************************************************)
C8_IdempotentLearning ==
  [][HandlingFrame
     => /\ (Recorded(seen, ev.dpid, ev.pkt.src)
             /\ seen[ev.dpid][ev.pkt.src] = ev.in_port)
            => mac_to_port' = mac_to_port
        /\ packet_in_handler(variant, mac_to_port', ev).table = mac_to_port']_vars

C8_Witness ==
  /\ HandledFrame
  /\ Recorded(before, ev.dpid, ev.pkt.src)
  /\ before[ev.dpid][ev.pkt.src] = ev.in_port
  /\ Cardinality(DOMAIN before[ev.dpid]) = 2
  /\ mac_to_port = before

(***************************************************************************)
(* C9.  Base forwarding rule: a Deliver decision that sets no queue        *)
(* installs a rule with priority 1, match exactly (in_port = the ingress   *)
(* port, eth_dst = the frame's destination) and action list exactly        *)
(* [Output(learned port)].  End to end on switch 1: PacketIn on port 1     *)
(* from h1 to broadcast floods and leaves the table h1 -> 1; then PacketIn *)
(* on port 4 from h4 to h1 yields Deliver(1) with the install matching     *)
(* (in_port = 4, eth_dst = h1) at priority 1.                              *)
(***************************************************************************)
ScenarioFirst ==
  /\ HandledFrame
  /\ before = EmptyDict
  /\ ev.dpid = 1 /\ ev.in_port = 1
  /\ ev.pkt.src = "00:00:00:00:00:01" /\ ev.pkt.dst = Broadcast

ScenarioSecond ==
  /\ HandledFrame
  /\ before = (1 :> ("00:00:00:00:00:01" :> 1))
  /\ ev.dpid = 1 /\ ev.in_port = 4
  /\ ev.pkt.src = "00:00:00:00:00:04" /\ ev.pkt.dst = "00:00:00:00:00:01"

C9_BaseRule ==
  /\ (Delivered /\ \A i \in 1..Len(sent) : QueueTags(sent[i].actions) = {})
     => /\ Len(sent) = 2
        /\ IsFlowMod(sent[1])
        /\ sent[1].dpid = ev.dpid
        /\ sent[1].priority = 1
        /\ sent[1].match = [in_port |-> ev.in_port, eth_dst |-> ev.pkt.dst]
        /\ sent[1].actions = <<<<"OUTPUT", DeliverPort>>>>
  /\ ScenarioFirst
     => /\ IsFlood(sent)
        /\ mac_to_port = (1 :> ("00:00:00:00:00:01" :> 1))
  /\ ScenarioSecond
     => /\ IsDeliver(sent, 1)
        /\ sent[1].priority = 1
        /\ sent[1].match = [in_port |-> 4, eth_dst |-> "00:00:00:00:00:01"]

C9_Witness ==
  /\ ScenarioSecond
  /\ IsDeliver(sent, 1)
  /\ sent[1].match = [in_port |-> 4, eth_dst |-> "00:00:00:00:00:01"]

(***************************************************************************)
(* C10.  Parse errors are recovered per event: whenever the handling of a  *)
(* PacketIn fails because the frame cannot be parsed (no ethernet header,  *)
(* or no ipv4 header under the IPv4 ether-type), the learning table is     *)
(* exactly as before the event and nothing has been sent.                  *)
(***************************************************************************)
C10_ParseErrorLeavesNoTrace ==
  (pc = "done" /\ ev.kind = "PacketIn" /\ raised)
  => (mac_to_port = before /\ sent = <<>>)

(***************************************************************************)
(* The same controller in front of a switch that may be gone: every        *)
(* send_msg call of a handler gets a result of its own, kept in send_ok    *)
(* beside the message in sent.  The alphabet is one switch, one IPv4 flow, *)
(* ARP, and the frames whose ipv4 header does not parse.                   *)
(***************************************************************************)
SendMsgs ==
  {m \in PacketInMsgs : /\ m.dpid = QOS_DPID
                        /\ m.buffer_id = OFP_NO_BUFFER
                        /\ m.pkt \in FlowPkts \cup TruncIpPkts}

SwitchFeaturesSend ==
  /\ pc = "handling"
  /\ ev.kind = "SwitchFeatures"
  /\ pc' = "done"
  /\ LET msgs == switch_features_handler(ev.dpid)
     IN  \E oks \in [1..Len(msgs) -> BOOLEAN] :
           LET log == SubmitAll(<<>>, msgs, oks)
           IN  /\ sent' = [i \in 1..Len(log) |-> log[i].msg]
               /\ send_ok' = [i \in 1..Len(log) |-> log[i].ok]
  /\ raised' = FALSE
  /\ before' = mac_to_port
  /\ UNCHANGED <<variant, mac_to_port, seen, ev, flow_table, streams,
               side>>

PacketInSend ==
  /\ pc = "handling"
  /\ ev.kind = "PacketIn"
  /\ LET r == packet_in_handler(variant, mac_to_port, ev)
     IN  /\ mac_to_port' = r.table
         /\ raised' = r.raised
         /\ \E oks \in [1..Len(r.sent) -> BOOLEAN] :
              LET log == SubmitAll(<<>>, r.sent, oks)
              IN  /\ sent' = [i \in 1..Len(log) |-> log[i].msg]
                  /\ send_ok' = [i \in 1..Len(log) |-> log[i].ok]
  /\ seen' = Sighting(seen, ev)
  /\ before' = mac_to_port
  /\ pc' = "done"
  /\ UNCHANGED <<variant, ev, flow_table, streams, side>>

NextSend ==
  \/ EventOFPSwitchFeatures(QOS_DPID)
  \/ \E msg \in SendMsgs : EventOFPPacketIn(msg)
  \/ SwitchFeaturesSend
  \/ PacketInSend
  \/ EventLoop

SpecSend == Init /\ [][NextSend]_vars

(***************************************************************************)
(* The three controllers side by side, each with a learning table of its   *)
(* own, given the same events one after the other: side.table[v] is the    *)
(* table of controller v, side.sent[v] the messages it sent for the event  *)
(* just handled.  The events are SwitchFeatures and the PacketIn whose     *)
(* headers parse; variant is not read.                                     *)
(***************************************************************************)
SideMsgs ==
  {m \in PacketInMsgs : /\ m.buffer_id \in {OFP_NO_BUFFER, 0}
                        /\ m.pkt.eth
                        /\ m.pkt.ethertype = ETH_TYPE_IP => m.pkt.ip}

InitSide ==
  /\ variant = "Teste4_5"
  /\ mac_to_port = EmptyDict
  /\ seen = EmptyDict
  /\ pc = "idle"
  /\ ev = NoEvent
  /\ before = EmptyDict
  /\ sent = <<>>
  /\ raised = FALSE
  /\ flow_table = {}
  /\ streams = NoStreams
  /\ send_ok = <<>>
  /\ side = [table |-> [v \in Variants |-> EmptyDict],
             sent |-> [v \in Variants |-> <<>>]]

HandleSide ==
  /\ pc = "handling"
  /\ pc' = "done"
  /\ side' = [table |-> [v \in Variants |-> Handle(v, side.table[v], ev).table],
              sent |-> [v \in Variants |-> Handle(v, side.table[v], ev).sent]]
  /\ UNCHANGED <<variant, mac_to_port, seen, ev, before, sent, raised, flow_table,
                 streams, send_ok>>

EventLoopSide ==
  /\ pc = "done"
  /\ pc' = "idle"
  /\ ev' = NoEvent
  /\ side' = [side EXCEPT !.sent = [v \in Variants |-> <<>>]]
  /\ UNCHANGED <<variant, mac_to_port, seen, before, sent, raised, flow_table,
                 streams, send_ok>>

NextSide ==
  \/ \E dpid \in Dpids : EventOFPSwitchFeatures(dpid)
  \/ \E msg \in SideMsgs : EventOFPPacketIn(msg)
  \/ HandleSide
  \/ EventLoopSide

SpecSide == InitSide /\ [][NextSide]_vars

(***************************************************************************)
(* Two switches, each with its own stream of events in arrival order.      *)
(* The event loop runs one handler at a time, to its end, so a concurrent  *)
(* run is an interleaving of whole handlers: each step takes the next      *)
(* event of either stream.  streams.out keeps the messages sent to each    *)
(* switch, in order; streams.interleaved tells that an event of the second *)
(* switch was handled while the first still had events waiting.            *)
(***************************************************************************)
MaxStream == 2

StreamEvents(d) ==
  {[kind |-> "SwitchFeatures", dpid |-> d]}
    \cup {m \in PacketInMsgs : /\ m.dpid = d
                               /\ m.buffer_id = OFP_NO_BUFFER
                               /\ m.pkt.eth
                               /\ m.pkt.ethertype = ETH_TYPE_ARP
                               /\ m.pkt.dst \in Macs
                               /\ m.pkt.src # m.pkt.dst}

StreamsOf(d) == UNION {[1..n -> StreamEvents(d)] : n \in 0..MaxStream}

InitStreams ==
  /\ variant \in Variants
  /\ mac_to_port = EmptyDict
  /\ seen = EmptyDict
  /\ pc = "idle"
  /\ ev = NoEvent
  /\ before = EmptyDict
  /\ sent = <<>>
  /\ raised = FALSE
  /\ flow_table = {}
  /\ send_ok = <<>>
  /\ side = NoSide
  /\ \E s1 \in StreamsOf(QOS_DPID), s2 \in StreamsOf(2) :
       LET all == (QOS_DPID :> s1) @@ (2 :> s2)
       IN  streams = [todo |-> all, all |-> all,
                      out |-> [d \in Dpids |-> <<>>], interleaved |-> FALSE]

HandleNext(d) ==
  /\ streams.todo[d] # <<>>
  /\ LET e == Head(streams.todo[d])
         r == Handle(variant, mac_to_port, e)
     IN  /\ mac_to_port' = r.table
         /\ seen' = IF e.kind = "PacketIn" THEN Sighting(seen, e) ELSE seen
         /\ streams' = [streams EXCEPT
                          !.todo[d] = Tail(@),
                          !.out[d] = @ \o r.sent,
                          !.interleaved = @ \/ (d # QOS_DPID
                                                /\ streams.todo[QOS_DPID] # <<>>)]
  /\ UNCHANGED <<variant, pc, ev, before, sent, raised, flow_table, send_ok,
               side>>

NextStreams == \E d \in Dpids : HandleNext(d)

SpecStreams == InitStreams /\ [][NextStreams]_vars

\* One stream handled from its first event to its last, nothing in between.
RECURSIVE RunStream(_, _, _)
RunStream(v, table, stream) ==
  IF stream = <<>>
  THEN [table |-> table, out |-> <<>>]
  ELSE LET r == Handle(v, table, Head(stream))
           rest == RunStream(v, r.table, Tail(stream))
       IN  [table |-> rest.table, out |-> r.sent \o rest.out]

(***************************************************************************)
(* C11.  Lazy per-switch state: a non-LLDP PacketIn for a switch that has  *)
(* no learning-table scope yet (whether or not a SwitchFeatures event of   *)
(* that switch came first) is handled without error when the frame is      *)
(* well formed: afterwards the switch has a scope holding exactly the      *)
(* frame's source, every other scope is unchanged, and the messages sent   *)
(* and the outcome are those the handler gives on an existing empty scope. *)
(***************************************************************************)
C11_LazyScope ==
  [][(HandlingFrame /\ ev.dpid \notin DOMAIN mac_to_port)
     => LET onEmpty == packet_in_handler(variant,
                                         SetItem(mac_to_port, ev.dpid, EmptyDict), ev)
        IN  /\ WellFormed(ev.pkt) => ~raised'
            /\ DOMAIN mac_to_port' = DOMAIN mac_to_port \cup {ev.dpid}
            /\ mac_to_port'[ev.dpid] = (ev.pkt.src :> ev.in_port)
            /\ \A d \in DOMAIN mac_to_port : mac_to_port'[d] = mac_to_port[d]
            /\ sent' = onEmpty.sent
            /\ raised' = onEmpty.raised
            /\ mac_to_port' = onEmpty.table]_vars

C11_Witness ==
  /\ HandledFrame
  /\ ev.dpid \notin DOMAIN before
  /\ before # EmptyDict
  /\ ~raised
  /\ mac_to_port[ev.dpid] = (ev.pkt.src :> ev.in_port)
  /\ Len(sent) = 1

(***************************************************************************)
(* C12.  Learning-table provenance: in every reachable state each entry    *)
(* (switch s, address a) -> port p exists only if an earlier non-LLDP      *)
(* PacketIn on s had source address a, and p is the ingress port of the    *)
(* most recent such PacketIn.                                              *)
(***************************************************************************)
C12_Provenance ==
  \A s \in DOMAIN mac_to_port :
    \A a \in DOMAIN mac_to_port[s] :
      /\ Recorded(seen, s, a)
      /\ mac_to_port[s][a] = seen[s][a]

C12_Witness ==
  /\ HandledFrame
  /\ Recorded(before, ev.dpid, ev.pkt.src)
  /\ before[ev.dpid][ev.pkt.src] # ev.in_port
  /\ Cardinality(DOMAIN mac_to_port) = 2
  /\ seen[ev.dpid][ev.pkt.src] = ev.in_port
  /\ mac_to_port[ev.dpid][ev.pkt.src] = ev.in_port

(***************************************************************************)
(* C13.  Every non-LLDP PacketIn with a well-formed ethernet header        *)
(* results in exactly one packet-send for the triggering packet, whether   *)
(* the decision is Flood or Deliver and in every variant.                  *)
(***************************************************************************)
C13_AlwaysOneSend ==
  HandledFrame
  => /\ Cardinality(Sends(sent)) = 1
     /\ \A i \in Sends(sent) :
          sent[i].dpid = ev.dpid /\ sent[i].in_port = ev.in_port

(***************************************************************************)
(* C14.  The rule-install of a Deliver decision carries the PacketIn's     *)
(* buffer reference unchanged, for every buffer id the switch can supply   *)
(* (buffer id 0 included); it carries the no-buffer marker only when the   *)
(* PacketIn had no buffer.                                                 *)
(***************************************************************************)
C14_InstallKeepsBuffer ==
  Delivered
  => \A i \in Installs(sent) : sent[i].buffer_id = ev.buffer_id

(***************************************************************************)
(* C15.  When a classification rule matches (two-tier or three-tier        *)
(* policy), the installed rule's match is exactly (eth_type = IPv4,        *)
(* ipv4_src, ipv4_dst) of the frame, with no ingress port and no           *)
(* link-layer destination, and the action list is exactly                  *)
(* [SetQueue(queue), Output(port)], SetQueue first.                        *)
(***************************************************************************)
ThreeTierQueue(dpid, out_port, pkt) ==
  IF dpid = 1 /\ out_port = 4 /\ pkt.ethertype = ETH_TYPE_IP /\ pkt.ip_src = "10.0.0.2"
  THEN {1}
  ELSE IF dpid = 1 /\ out_port = 4 /\ pkt.ethertype = ETH_TYPE_IP
          /\ pkt.ip_src \in {"10.0.0.1", "10.0.0.3"}
       THEN {2}
       ELSE {}

PolicyQueue(v, dpid, out_port, pkt) ==
  CASE v = "Teste2" -> TwoTierQueue(dpid, out_port, pkt)
    [] v = "Teste3" -> ThreeTierQueue(dpid, out_port, pkt)
    [] v = "Teste4_5" -> {}

C15_NarrowedRule ==
  (Delivered /\ PolicyQueue(variant, ev.dpid, DeliverPort, ev.pkt) # {})
  => /\ Len(sent) = 2
     /\ IsFlowMod(sent[1])
     /\ DOMAIN sent[1].match = {"eth_type", "ipv4_src", "ipv4_dst"}
     /\ sent[1].match.eth_type = 2048
     /\ sent[1].match.ipv4_src = ev.pkt.ip_src
     /\ sent[1].match.ipv4_dst = ev.pkt.ip_dst
     /\ \E q \in PolicyQueue(variant, ev.dpid, DeliverPort, ev.pkt) :
          sent[1].actions = <<<<"SET_QUEUE", q>>, <<"OUTPUT", DeliverPort>>>>

C15_Witness ==
  /\ Delivered
  /\ variant = "Teste3"
  /\ ev.pkt.ip_src = "10.0.0.3"
  /\ sent[1].match = [eth_type |-> 2048, ipv4_src |-> "10.0.0.3",
                       ipv4_dst |-> ev.pkt.ip_dst]
  /\ sent[1].actions = <<<<"SET_QUEUE", 2>>, <<"OUTPUT", 4>>>>

(***************************************************************************)
(* C16.  Three-tier variant (controladorTeste3): a Deliver decision for an *)
(* IPv4 frame on switch 1 with output port 4 carries queue 1 when the IP   *)
(* source is 10.0.0.2 and queue 2 when it is 10.0.0.1 or 10.0.0.3,         *)
(* whatever the IP destination; any other IP source, switch or output      *)
(* port, and any non-IPv4 frame, carries no queue tag.                     *)
(***************************************************************************)
C16_ThreeTierClassification ==
  (variant = "Teste3" /\ Delivered)
  => /\ Len(sent) = 2
     /\ \A i \in 1..Len(sent) :
          QueueTags(sent[i].actions) = ThreeTierQueue(ev.dpid, DeliverPort, ev.pkt)

C16_Witness ==
  /\ variant = "Teste3"
  /\ Delivered
  /\ ev.pkt.ip_src = "10.0.0.2"
  /\ ev.pkt.ip_dst = "10.0.0.9"
  /\ QueueTags(sent[1].actions) = {1}
  /\ QueueTags(sent[2].actions) = {1}

(***************************************************************************)
(* C17.  No-classification variant (controladorTeste4_5): over every       *)
(* sequence of events no message sent contains a SetQueue action, and      *)
(* every rule installed at priority 1 has the base match (in_port,         *)
(* eth_dst) and the action list [Output(port)].                            *)
(***************************************************************************)
C17_NoClassification ==
  (variant = "Teste4_5" /\ pc = "done")
  => \A i \in 1..Len(sent) :
       /\ QueueTags(sent[i].actions) = {}
       /\ (IsFlowMod(sent[i]) /\ sent[i].priority = 1)
          => /\ sent[i].match = [in_port |-> ev.in_port, eth_dst |-> ev.pkt.dst]
             /\ sent[i].actions = <<<<"OUTPUT", DeliverPort>>>>

C17_Witness ==
  /\ variant = "Teste4_5"
  /\ Delivered
  /\ ev.dpid = 1 /\ DeliverPort = 4
  /\ ev.pkt.ip_src = "10.0.0.1" /\ ev.pkt.ip_dst = "10.0.0.4"
  /\ sent[1].match = [in_port |-> ev.in_port, eth_dst |-> ev.pkt.dst]
  /\ sent[1].actions = <<<<"OUTPUT", 4>>>>

StreamsDone == streams.todo # <<>> /\ \A d \in Dpids : streams.todo[d] = <<>>

C19_CrossSwitchIndependence ==
  StreamsDone
  => LET r1 == RunStream(variant, EmptyDict, streams.all[QOS_DPID])
         r2 == RunStream(variant, r1.table, streams.all[2])
     IN  /\ mac_to_port = r2.table
         /\ streams.out[QOS_DPID] = r1.out
         /\ streams.out[2] = r2.out

C19_Witness ==
  /\ StreamsDone
  /\ streams.interleaved
  /\ \A d \in Dpids : /\ Len(streams.all[d]) = 2
                       /\ \E i \in Installs(streams.out[d]) :
                            streams.out[d][i].priority = 1
                       /\ d \in DOMAIN mac_to_port
                       /\ Cardinality(DOMAIN mac_to_port[d]) = 2

(***************************************************************************)
(* C21.  When the forwarding plane reports that a rule-install or a        *)
(* packet-send failed (switch not connected), the failure is surfaced to   *)
(* the caller of the event handler as a failure outcome and is not         *)
(* silently discarded.  The only failure outcome a handler has is the      *)
(* exception it raises.                                                    *)
(***************************************************************************)
SendFailed == \E i \in 1..Len(send_ok) : ~send_ok[i]

C21_FailureSurfaced == (pc = "done" /\ SendFailed) => raised

(***************************************************************************)
(* C22.  No retry: within one event each instruction (the install, the     *)
(* packet-send) is submitted to the forwarding plane at most once, also    *)
(* when the submission fails, and a failed install does not stop the       *)
(* packet-send of the same event from being submitted once.                *)
(***************************************************************************)
C22_NoRetry ==
  pc = "done"
  => /\ Len(send_ok) = Len(sent)
     /\ Cardinality(Installs(sent)) <= 1
     /\ Cardinality(Sends(sent)) <= 1
     /\ (\E i \in Installs(sent) : ~send_ok[i] /\ ev.kind = "PacketIn")
        => /\ Cardinality(Sends(sent)) = 1
           /\ \A i \in Installs(sent), j \in Sends(sent) : i < j

C22_Witness ==
  /\ Delivered
  /\ ev.pkt.src # ev.pkt.dst
  /\ Len(sent) = 2
  /\ IsFlowMod(sent[1]) /\ ~send_ok[1]
  /\ IsPacketOut(sent[2]) /\ ~send_ok[2]

(***************************************************************************)
(* C23.  No aging: once (switch, address) is in the learning table it is   *)
(* there in every later state; the key set of each switch's table only     *)
(* grows, under every sequence of SwitchFeatures and PacketIn events.      *)
(***************************************************************************)
C23_NoAging ==
  [][\A s \in DOMAIN mac_to_port :
       /\ s \in DOMAIN mac_to_port'
       /\ DOMAIN mac_to_port[s] \subseteq DOMAIN mac_to_port'[s]]_vars

C23_Witness ==
  /\ HandledFrame
  /\ Recorded(before, ev.dpid, ev.pkt.dst)
  /\ ~Recorded(before, ev.dpid, ev.pkt.src)
  /\ DOMAIN mac_to_port[ev.dpid] = {ev.pkt.src, ev.pkt.dst}
  /\ \E d \in DOMAIN before : d # ev.dpid /\ DOMAIN mac_to_port[d] = DOMAIN before[d]

(***************************************************************************)
(* C24.  The classification predicates are mutually exclusive: in each of  *)
(* the three controllers, for every (switch, output port, IP source, IP    *)
(* destination) at most one classification rule matches, so no frame is    *)
(* given both the HIGH and the LOW queue.                                  *)
(***************************************************************************)
\* The queues of the rules of controller v that match.
MatchingRules(v, dpid, out_port, ip_src, ip_dst) ==
  IF dpid = 1 /\ out_port = 4
  THEN CASE v = "Teste2" ->
              {q \in {1} : Rule2High(ip_src, ip_dst)}
                \cup {q \in {2} : Rule2Low(ip_src, ip_dst)}
         [] v = "Teste3" ->
              {q \in {1} : Rule3High(ip_src, ip_dst)}
                \cup {q \in {2} : Rule3Low(ip_src, ip_dst)}
         [] v = "Teste4_5" -> {}
  ELSE {}

C24_ExclusiveRules ==
  (HandledFrame /\ ev.pkt.ip)
  => /\ \A p \in Ports, t \in IpDsts :
          Cardinality(MatchingRules(variant, ev.dpid, p, ev.pkt.ip_src, t)) <= 1
     /\ \A i \in 1..Len(sent) :
          /\ Cardinality(QueueTags(sent[i].actions)) <= 1
          /\ QueueTags(sent[i].actions) \subseteq
               MatchingRules(variant, ev.dpid, OutputOf(sent[i].actions),
                             ev.pkt.ip_src, ev.pkt.ip_dst)

C24_Witness ==
  /\ Delivered
  /\ variant = "Teste3"
  /\ ev.pkt.ip
  /\ MatchingRules(variant, ev.dpid, DeliverPort, ev.pkt.ip_src, ev.pkt.ip_dst) = {1}
  /\ QueueTags(sent[2].actions) = {1}

(***************************************************************************)
(* C25.  Frame of the PacketIn handler: a PacketIn on switch s with source *)
(* a changes at most the table entry (s, a); every entry of every other    *)
(* switch and every other entry of s, the one looked up for the            *)
(* destination included, is unchanged, and resolving the destination adds  *)
(* no entry.                                                               *)
(***************************************************************************)
C25_Frame ==
  [][(pc = "handling" /\ ev.kind = "PacketIn")
     => /\ \A s \in DOMAIN mac_to_port : \A a \in DOMAIN mac_to_port[s] :
             (s # ev.dpid \/ a # ev.pkt.src)
             => Recorded(mac_to_port', s, a) /\ mac_to_port'[s][a] = mac_to_port[s][a]
        /\ \A s \in DOMAIN mac_to_port' : \A a \in DOMAIN mac_to_port'[s] :
             Recorded(mac_to_port, s, a) \/ (s = ev.dpid /\ a = ev.pkt.src)
        /\ DOMAIN mac_to_port' \subseteq DOMAIN mac_to_port \cup {ev.dpid}]_vars

C25_Witness ==
  /\ HandledFrame
  /\ ev.pkt.src # ev.pkt.dst
  /\ Cardinality(DOMAIN before) = 2
  /\ ~Recorded(before, ev.dpid, ev.pkt.dst)
  /\ ~Recorded(mac_to_port, ev.dpid, ev.pkt.dst)
  /\ Recorded(before, ev.dpid, ev.pkt.src)
  /\ before[ev.dpid][ev.pkt.src] # mac_to_port[ev.dpid][ev.pkt.src]
  /\ \E d \in DOMAIN before : d # ev.dpid /\ before[d] = mac_to_port[d]
                                /\ before[d] # EmptyDict

(***************************************************************************)
(* C26.  A rule-install is emitted by the PacketIn handler if and only if  *)
(* the decision is Deliver: a Flood decision (destination not in the       *)
(* switch's table) emits no install and one packet-send, a Deliver         *)
(* decision (destination found) emits exactly one install and one          *)
(* packet-send.                                                            *)
(***************************************************************************)
C26_InstallIffDeliver ==
  HandledFrame
  => /\ Cardinality(Sends(sent)) = 1
     /\ IF Recorded(mac_to_port, ev.dpid, ev.pkt.dst)
        THEN Cardinality(Installs(sent)) = 1
        ELSE Cardinality(Installs(sent)) = 0

(***************************************************************************)
(* C27.  For a Deliver decision the action list of the packet-send is the  *)
(* action list of the rule installed by the same event, so the triggering  *)
(* packet of a classified flow leaves with the SetQueue tag of the rule;   *)
(* for a Flood decision the action list of the packet-send is exactly      *)
(* [Output(flood)].                                                        *)
(***************************************************************************)
C27_SameActions ==
  HandledFrame
  => /\ \A i \in Installs(sent), j \in Sends(sent) :
          sent[j].actions = sent[i].actions
     /\ ~Recorded(mac_to_port, ev.dpid, ev.pkt.dst)
        => /\ Sends(sent) # {}
           /\ \A j \in Sends(sent) : sent[j].actions = <<<<"OUTPUT", OFPP_FLOOD>>>>

C27_Witness ==
  /\ Delivered
  /\ Len(sent) = 2
  /\ IsFlowMod(sent[1]) /\ IsPacketOut(sent[2])
  /\ sent[2].actions = sent[1].actions
  /\ QueueTags(sent[2].actions) = {2}

(***************************************************************************)
(* C28.  The packet-send carries the raw frame bytes if and only if the    *)
(* PacketIn had no buffer reference; with a buffer reference it carries    *)
(* that reference and no raw bytes; it always carries the ingress port of  *)
(* the PacketIn.                                                           *)
(***************************************************************************)
C28_BufferOrData ==
  (pc = "done" /\ ev.kind = "PacketIn")
  => \A j \in Sends(sent) :
       /\ sent[j].data <=> (ev.buffer_id = OFP_NO_BUFFER)
       /\ sent[j].buffer_id = ev.buffer_id
       /\ sent[j].in_port = ev.in_port

C28_Witness ==
  /\ Delivered
  /\ ev.buffer_id = 0
  /\ \E j \in Sends(sent) : sent[j].buffer_id = 0 /\ ~sent[j].data
                             /\ sent[j].in_port = ev.in_port

(***************************************************************************)
(* C29.  Priorities: every rule-install emitted by the SwitchFeatures      *)
(* handler has priority 0 and every rule-install emitted by the PacketIn   *)
(* handler, classified or not, has priority 1, so every learned rule is    *)
(* strictly above the table-miss rule.                                     *)
(***************************************************************************)
C29_Priorities ==
  pc = "done"
  => \A i \in Installs(sent) :
       /\ ev.kind = "SwitchFeatures" => sent[i].priority = 0
       /\ ev.kind = "PacketIn" => sent[i].priority = 1

C29_Witness ==
  /\ Delivered
  /\ QueueTags(sent[1].actions) # {}
  /\ sent[1].priority = 1
  /\ sent[1].priority > switch_features_handler(ev.dpid)[1].priority

(***************************************************************************)
(* C30.  Every delivered event (SwitchFeatures or PacketIn) is eventually  *)
(* finished: its handling runs to completion or is dropped on a parse      *)
(* failure, and after it the engine is ready for the next event; no event  *)
(* leaves the engine stalled.                                              *)
(***************************************************************************)
C30_EventuallyFinished == (pc = "handling") ~> (pc = "idle")

C30_Witness ==
  /\ pc = "done"
  /\ ev.kind = "PacketIn"
  /\ ~ev.pkt.eth
  /\ raised
  /\ sent = <<>>
  /\ mac_to_port # EmptyDict

(***************************************************************************)
(* C31.  The three controllers differ only in classification: side by side *)
(* on the same sequence of well-formed events, the two-tier, three-tier    *)
(* and no-classification controllers hold equal learning tables after      *)
(* every event, and they send identical messages for every event on which  *)
(* no classification rule of the controller matches.                       *)
(***************************************************************************)
\* No rule of controller v matches the frame just handled: the frame was
\* flooded, or the policy of v has no queue for it on its output port.
NoRuleMatches(v) ==
  \/ ev.kind = "SwitchFeatures"
  \/ ev.pkt.ethertype = ETH_TYPE_LLDP
  \/ ~Recorded(side.table[v], ev.dpid, ev.pkt.dst)
  \/ PolicyQueue(v, ev.dpid, side.table[v][ev.dpid][ev.pkt.dst], ev.pkt) = {}

C31_VariantsAgree ==
  /\ \A v1, v2 \in DOMAIN side.table : side.table[v1] = side.table[v2]
  /\ pc = "done"
     => \A v1, v2 \in DOMAIN side.sent :
          (NoRuleMatches(v1) /\ NoRuleMatches(v2)) => side.sent[v1] = side.sent[v2]

C31_Witness ==
  /\ pc = "done"
  /\ DOMAIN side.table = Variants
  /\ ev.kind = "PacketIn"
  /\ Len(side.sent["Teste4_5"]) = 2
  /\ side.sent["Teste2"] = side.sent["Teste4_5"]
  /\ side.sent["Teste3"] # side.sent["Teste4_5"]
  /\ NoRuleMatches("Teste2") /\ ~NoRuleMatches("Teste3")
  /\ side.table["Teste2"] = side.table["Teste3"]
  /\ Cardinality(DOMAIN side.table["Teste3"]) = 2

(***************************************************************************)
(* C33.  The SwitchFeatures handler leaves the learning table unchanged:   *)
(* it neither creates nor clears the scope of the switch, so the entries   *)
(* learned before a repeated SwitchFeatures of the same switch (a          *)
(* reconnect) still resolve destinations afterwards.                       *)
(***************************************************************************)
C33_SwitchFeaturesFrame ==
  [][(pc = "handling" /\ ev.kind = "SwitchFeatures")
     => /\ mac_to_port' = mac_to_port
        /\ DOMAIN mac_to_port' = DOMAIN mac_to_port
        /\ \A s \in DOMAIN mac_to_port : \A a \in DOMAIN mac_to_port[s] :
             OutPort(mac_to_port', s, a) = mac_to_port[s][a]]_vars

C33_Witness ==
  /\ pc = "done"
  /\ ev.kind = "SwitchFeatures"
  /\ Len(sent) = 1
  /\ ev.dpid \in DOMAIN before
  /\ Cardinality(DOMAIN before[ev.dpid]) = 2
  /\ mac_to_port = before
  /\ \E d \in Dpids : d \notin DOMAIN mac_to_port

(***************************************************************************)
(* C34.  The buffered packet of a PacketIn is handed to the forwarding     *)
(* plane at most once: for a Deliver decision with a real buffer reference *)
(* at most one of the instructions of the event (the install or the        *)
(* packet-send) carries that buffer reference.                             *)
(***************************************************************************)
BufferCarriers == {i \in 1..Len(sent) : sent[i].buffer_id = ev.buffer_id}

C34_BufferUsedOnce ==
  (Delivered /\ ev.buffer_id # OFP_NO_BUFFER)
  => Cardinality(BufferCarriers) <= 1

(***************************************************************************)
(* C35.  As stated: a Deliver decision never outputs to the ingress port   *)
(* of the packet, also when the destination was learned on the ingress     *)
(* port or the source of the frame equals its destination                  *)
(* (C35_NeverIngress).                                                     *)
(*                                                                         *)
(* The handlers do not compare the two ports.  What holds is               *)
(* C35_IngressExactlyWhen: Deliver(port) outputs to the port recorded for  *)
(* the destination once the source has been recorded, and port is the      *)
(* ingress port exactly when the destination is the frame's own source or  *)
(* was last sighted on the ingress port.                                   *)
(***************************************************************************)
C35_NeverIngress == Delivered => DeliverPort # ev.in_port

C35_IngressExactlyWhen ==
  Delivered
  => /\ \A i \in 1..Len(sent) : OutputOf(sent[i].actions) = DeliverPort
     /\ DeliverPort = ev.in_port
        <=> \/ ev.pkt.dst = ev.pkt.src
            \/ /\ Recorded(before, ev.dpid, ev.pkt.dst)
               /\ before[ev.dpid][ev.pkt.dst] = ev.in_port

C35_Witness ==
  /\ Delivered
  /\ ev.pkt.dst # ev.pkt.src
  /\ Recorded(before, ev.dpid, ev.pkt.dst)
  /\ before[ev.dpid][ev.pkt.dst] = ev.in_port
  /\ Len(sent) = 2
  /\ OutputOf(sent[2].actions) = ev.in_port

(***************************************************************************)
(* C36.  No QoS bypass by an untagged rule: in the two-tier and the        *)
(* three-tier controller, no priority-1 rule installed on switch 1         *)
(* without a SetQueue action has a match that also covers IPv4 packets of  *)
(* a flow the classification policy tags.  Every installed rule is in sent *)
(* once its event is handled.                                              *)
(***************************************************************************)
\* The packet pkt entering by in_port matches the rule's match fields.
Covers(match, in_port, pkt) ==
  /\ "in_port" \in DOMAIN match => match.in_port = in_port
  /\ "eth_dst" \in DOMAIN match => match.eth_dst = pkt.dst
  /\ "eth_type" \in DOMAIN match => match.eth_type = pkt.ethertype
  /\ "ipv4_src" \in DOMAIN match => pkt.ip /\ match.ipv4_src = pkt.ip_src
  /\ "ipv4_dst" \in DOMAIN match => pkt.ip /\ match.ipv4_dst = pkt.ip_dst

C36_NoBypass ==
  (pc = "done" /\ ev.kind = "PacketIn" /\ variant \in {"Teste2", "Teste3"})
  => \A i \in Installs(sent) :
       (sent[i].dpid = 1 /\ sent[i].priority = 1 /\ QueueTags(sent[i].actions) = {})
       => ~ \E p \in Ports, pkt \in IpPkts :
              /\ Covers(sent[i].match, p, pkt)
              /\ Recorded(mac_to_port, 1, pkt.dst)
              /\ PolicyQueue(variant, 1, mac_to_port[1][pkt.dst], pkt) # {}

(***************************************************************************)
(* C37.  Action shapes: every action list emitted by the PacketIn handler  *)
(* of any controller is [Output(flood)], [Output(p)] for a learned port p, *)
(* or [SetQueue(q), Output(4)] with q in {1, 2}; the SetQueue form occurs  *)
(* only for IPv4 frames on switch 1 with a Deliver decision to port 4, and *)
(* never with a Flood decision.                                            *)
(***************************************************************************)
C37_ActionShapes ==
  (pc = "done" /\ ev.kind = "PacketIn")
  => \A i \in 1..Len(sent) :
       LET a == sent[i].actions
       IN  /\ \/ a = <<<<"OUTPUT", OFPP_FLOOD>>>>
              \/ /\ Recorded(mac_to_port, ev.dpid, ev.pkt.dst)
                 /\ a = <<<<"OUTPUT", mac_to_port[ev.dpid][ev.pkt.dst]>>>>
              \/ \E q \in {1, 2} : a = <<<<"SET_QUEUE", q>>, <<"OUTPUT", 4>>>>
           /\ QueueTags(a) # {}
              => /\ ev.pkt.ethertype = 2048 /\ ev.pkt.ip
                 /\ ev.dpid = 1
                 /\ Recorded(mac_to_port, ev.dpid, ev.pkt.dst)
                 /\ mac_to_port[ev.dpid][ev.pkt.dst] = 4
                 /\ ~IsFlood(sent)

C37_Witness ==
  /\ Delivered
  /\ variant = "Teste2"
  /\ ev.pkt.src # ev.pkt.dst
  /\ sent[1].actions = <<<<"SET_QUEUE", 1>>, <<"OUTPUT", 4>>>>
  /\ sent[2].actions = <<<<"SET_QUEUE", 1>>, <<"OUTPUT", 4>>>>

====
